---- MODULE Spec2Model ----
(***************************************************************************)
(* Model of the stock cockpit (streamlit_app.py): the products table       *)
(* loaded from the sheet, kit expansion of an uploaded sales file          *)
(* (expandir_kits), the invoice preview (processar_faturamento) and the    *)
(* shortage report (Relatorio de Faltantes).                               *)
(*                                                                         *)
(* Text is a sequence of one-code-point strings.  Code points outside      *)
(* ASCII are written by name: "a_acute" is U+00E1, "c_ced" is U+00E7,      *)
(* "A_acute" is U+00C1, "C_ced" is U+00C7, "sz" is U+00DF, "acute" is the  *)
(* combining U+0301 and "cedilla" the combining U+0327.                    *)
(***************************************************************************)
EXTENDS Integers, Sequences, FiniteSets, TLC

\* ------------------------------------------------------------------ bounds
MaxProd == 2
MaxLines == 2
MaxText == 3

\* ------------------------------------------------------------- the state
VARIABLES
    produtos_df,   \* the products table, as carregar_produtos returned it
    tela,          \* the handler that ran last
    arquivo,       \* the uploaded sales file
    vendas,        \* the cleaned, grouped sales frame given to expandir_kits
    expansao,      \* what expandir_kits did: raised, kits, linhas, rows
    falt,          \* the rows of the shortage report
    prods_ok,      \* processar_faturamento: found rows
    prods_nok,     \* processar_faturamento: rows not found
    erro,          \* TRUE when the handler ended in its except branch
    carga,         \* how the sheet answered the load that built produtos_df
    test_mode,     \* the "Modo Teste" checkbox of the sidebar
    enviados,      \* the payloads the handler that ran last posted to WEBHOOK_URL
    resultados,    \* what movimentar_estoque returned, one result per call
    chamada        \* the helper called last, with its argument and its answer

vars == <<produtos_df, tela, arquivo, vendas, expansao, falt, prods_ok, prods_nok, erro,
          carga, test_mode, enviados, resultados, chamada>>

\* ------------------------------------------------------------ text helpers
\* Code point of a character (Python compares and sorts strings by it).
Ord(c) ==
    CASE c = " " -> 32 [] c = "," -> 44 [] c = "-" -> 45 [] c = "." -> 46
      [] c = "/" -> 47 [] c = "0" -> 48 [] c = "1" -> 49 [] c = "2" -> 50
      [] c = "3" -> 51 [] c = "5" -> 53 [] c = "A" -> 65 [] c = "B" -> 66
      [] c = "C" -> 67 [] c = "I" -> 73 [] c = "M" -> 77 [] c = "N" -> 78
      [] c = "S" -> 83 [] c = "X" -> 88 [] c = "_" -> 95 [] c = "a" -> 97
      [] c = "b" -> 98 [] c = "c" -> 99 [] c = "i" -> 105 [] c = "m" -> 109
      [] c = "n" -> 110 [] c = "s" -> 115 [] c = "x" -> 120
      [] c = "A_acute" -> 193 [] c = "C_ced" -> 199
      [] c = "sz" -> 223 [] c = "a_acute" -> 225 [] c = "c_ced" -> 231
      [] c = "acute" -> 769 [] c = "cedilla" -> 807
      [] OTHER -> 0

\* str.lower() of one character.
LowerChar(c) ==
    CASE c = "A" -> "a" [] c = "B" -> "b" [] c = "C" -> "c" [] c = "I" -> "i"
      [] c = "M" -> "m" [] c = "N" -> "n" [] c = "S" -> "s" [] c = "X" -> "x"
      [] c = "A_acute" -> "a_acute" [] c = "C_ced" -> "c_ced"
      [] OTHER -> c

\* str.upper() of one character, as a text ("sz" upper-cases to "SS").
UpperChar(c) ==
    CASE c = "a" -> <<"A">> [] c = "b" -> <<"B">> [] c = "c" -> <<"C">>
      [] c = "i" -> <<"I">> [] c = "m" -> <<"M">> [] c = "n" -> <<"N">>
      [] c = "s" -> <<"S">> [] c = "x" -> <<"X">> [] c = "sz" -> <<"S", "S">>
      [] c = "a_acute" -> <<"A_acute">> [] c = "c_ced" -> <<"C_ced">>
      [] OTHER -> <<c>>

\* unicodedata.normalize('NFKD', c) of one character.
NFKDChar(c) ==
    CASE c = "a_acute" -> <<"a", "acute">>
      [] c = "c_ced" -> <<"c", "cedilla">>
      [] c = "A_acute" -> <<"A", "acute">>
      [] c = "C_ced" -> <<"C", "cedilla">>
      [] OTHER -> <<c>>

\* unicodedata.combining(c) != 0
IsCombining(c) == c \in {"acute", "cedilla"}

\* str.isalnum() of one character.
IsAlnum(c) ==
    c \in {"0", "1", "2", "3", "5", "A", "B", "C", "I", "M", "N", "S", "X",
           "a", "b", "c", "i", "m", "n", "s", "x", "sz", "a_acute", "c_ced",
           "A_acute", "C_ced"}

\* str.isspace() of one character.
IsSpace(c) == c = " "

RECURSIVE LStrip(_)
LStrip(s) == IF s # <<>> /\ IsSpace(Head(s)) THEN LStrip(Tail(s)) ELSE s

RECURSIVE RStrip(_)
RStrip(s) ==
    IF s # <<>> /\ IsSpace(s[Len(s)]) THEN RStrip(SubSeq(s, 1, Len(s) - 1)) ELSE s

\* str.strip()
Strip(s) == RStrip(LStrip(s))

\* str.lower()
Lower(s) == [i \in 1..Len(s) |-> LowerChar(s[i])]

RECURSIVE Upper(_)
\* str.upper()
Upper(s) == IF s = <<>> THEN <<>> ELSE UpperChar(Head(s)) \o Upper(Tail(s))

RECURSIVE NFKD(_)
\* unicodedata.normalize('NFKD', s)
NFKD(s) == IF s = <<>> THEN <<>> ELSE NFKDChar(Head(s)) \o NFKD(Tail(s))

RECURSIVE ReplaceSz(_)
\* s.replace(U+00DF, 'ss')
ReplaceSz(s) ==
    IF s = <<>> THEN <<>>
    ELSE (IF Head(s) = "sz" THEN <<"s", "s">> ELSE <<Head(s)>>) \o ReplaceSz(Tail(s))

RECURSIVE Split(_, _, _)
\* str.split(sep): cur is the piece being read
Split(s, sep, cur) ==
    IF s = <<>> THEN <<cur>>
    ELSE IF Head(s) = sep THEN <<cur>> \o Split(Tail(s), sep, <<>>)
    ELSE Split(Tail(s), sep, Append(cur, Head(s)))

RECURSIVE StrLess(_, _)
\* a < b for Python strings (lexicographic by code point)
StrLess(a, b) ==
    IF b = <<>> THEN FALSE
    ELSE IF a = <<>> THEN TRUE
    ELSE IF Ord(Head(a)) # Ord(Head(b)) THEN Ord(Head(a)) < Ord(Head(b))
    ELSE StrLess(Tail(a), Tail(b))

RECURSIVE SortStrs(_)
\* the texts of a set in ascending order (groupby sorts its keys)
SortStrs(S) ==
    IF S = {} THEN <<>>
    ELSE LET m == CHOOSE x \in S : \A y \in S \ {x} : StrLess(x, y)
         IN <<m>> \o SortStrs(S \ {m})

Range(s) == {s[i] : i \in 1..Len(s)}

\* ----------------------------------------------------------------- safe_int
DigitVal(c) ==
    CASE c = "0" -> 0 [] c = "1" -> 1 [] c = "2" -> 2 [] c = "3" -> 3
      [] c = "5" -> 5 [] OTHER -> 0

IsDigit(c) == c \in {"0", "1", "2", "3", "5"}

RECURSIVE DigitsVal(_, _)
DigitsVal(s, acc) ==
    IF s = <<>> THEN acc ELSE DigitsVal(Tail(s), 10 * acc + DigitVal(Head(s)))

\* The texts safe_int answers with its default before parsing.
NullTexts ==
    {<<>>, <<"n", "a", "n">>, <<"n", "o", "n", "e">>, <<"n", "u", "l", "l">>,
     <<"n", "/", "a">>}

\* CommaToDot with a bug: the comma is left as it is
CommaToDot_keep(s) == s

\* str(x).replace(",", ".")
CommaToDot(s) == [i \in 1..Len(s) |-> IF s[i] = "," THEN "." ELSE s[i]]

\* float(text) over the modelled alphabet: [sign] digits [. digits] with at
\* least one digit, surrounding blanks allowed; anything else raises.
FloatParts(s) ==
    LET t == Strip(s)
        neg == t # <<>> /\ Head(t) = "-"
        u == IF neg THEN Tail(t) ELSE t
        dots == {i \in 1..Len(u) : u[i] = "."}
        dot == IF dots = {} THEN Len(u) + 1 ELSE CHOOSE i \in dots : TRUE
        ip == SubSeq(u, 1, dot - 1)
        fp == SubSeq(u, dot + 1, Len(u))
    IN [ok |-> /\ Cardinality(dots) <= 1
               /\ \A i \in 1..Len(ip) : IsDigit(ip[i])
               /\ \A i \in 1..Len(fp) : IsDigit(fp[i])
               /\ Len(ip) + Len(fp) >= 1,
        neg |-> neg, ip |-> ip]

\* TRUE when safe_int(x, default) does not answer default
ParsesAsInt(x) ==
    /\ Lower(Strip(x)) \notin NullTexts
    /\ FloatParts(CommaToDot(x)).ok

safe_int(x, default) ==
    IF ParsesAsInt(x)
    THEN LET p == FloatParts(CommaToDot(x))
             v == DigitsVal(p.ip, 0)
         IN IF p.neg THEN 0 - v ELSE v
    ELSE default

\* safe_int over the kinds of value it is handed: None, a float NaN, a text,
\* a whole number
safe_int_any(x, default) ==
    CASE x.t = "None" -> default
      [] x.t = "NaN" -> default
      [] x.t = "str" -> safe_int(x.s, default)
      [] x.t = "int" -> x.v

RECURSIVE parse_parts(_)
\* the loop of parse_int_list over the stripped parts
parse_parts(parts) ==
    IF parts = <<>> THEN <<>>
    ELSE LET p == Strip(Head(parts))
         IN IF p = <<>> \/ ~ParsesAsInt(p) THEN parse_parts(Tail(parts))
            ELSE <<safe_int(p, 0)>> \o parse_parts(Tail(parts))

parse_int_list(value) == parse_parts(Split(value, ",", <<>>))

\* ------------------------------------------------------------ normalize_key
\* normalize_key with a bug: the NFKD decomposition is applied last, after the
\* accents were looked for and the text was upper-cased
normalize_key_late(s) ==
    LET notcomb(c) == ~IsCombining(c)
        keep(c) == IsAlnum(c) \/ c = "-"
    IN NFKD(Strip(Upper(SelectSeq(ReplaceSz(SelectSeq(s, notcomb)), keep))))

normalize_key(s) ==
    LET notcomb(c) == ~IsCombining(c)
        keep(c) == IsAlnum(c) \/ c = "-"
    IN Strip(Upper(SelectSeq(ReplaceSz(SelectSeq(NFKD(s), notcomb)), keep)))

\* ------------------------------------------------------------------ status
\* calcular_semaforo with a bug: the excess test comes before the low test
calcular_semaforo_excess_first(estoque_atual, estoque_min, estoque_max) ==
    IF estoque_atual < estoque_min THEN "CRITICO"
    ELSE IF estoque_atual > estoque_max THEN "EXCESSO"
    ELSE IF 10 * estoque_atual <= 12 * estoque_min THEN "BAIXO"
    ELSE "OK"

\* calcular_semaforo of the main app: the status text it answers; with whole
\* quantities atual <= min * 1.2 is 10 * atual <= 12 * min
calcular_semaforo(estoque_atual, estoque_min, estoque_max) ==
    IF estoque_atual < estoque_min THEN "CRITICO"
    ELSE IF 10 * estoque_atual <= 12 * estoque_min THEN "BAIXO"
    ELSE IF estoque_atual > estoque_max THEN "EXCESSO"
    ELSE "OK"

\* the status adicionar_status of the mobile app gives one row; with whole
\* quantities atual <= min * 1.5 is 2 * atual <= 3 * min
adicionar_status(row) ==
    IF row.estoque_atual <= row.estoque_min THEN "CRITICO"
    ELSE IF 2 * row.estoque_atual <= 3 * row.estoque_min THEN "ATENCAO"
    ELSE "OK"

\* ------------------------------------------------------- carregar_produtos
\* One sheet row as read: codigo, estoque_atual (after to_numeric), and the
\* kit columns as text (after astype(str)).
SheetRow(codigo, estoque, eh_kit, componentes, quantidades) ==
    [codigo |-> codigo, estoque_atual |-> estoque, eh_kit |-> eh_kit,
     componentes |-> componentes, quantidades |-> quantidades]

\* df['codigo_key'] = df['codigo'].astype(str).map(normalize_key)
carregar_produtos(sheet) ==
    [i \in 1..Len(sheet) |->
        [codigo |-> sheet[i].codigo,
         codigo_key |-> normalize_key(sheet[i].codigo),
         estoque_atual |-> sheet[i].estoque_atual,
         eh_kit |-> sheet[i].eh_kit,
         componentes |-> sheet[i].componentes,
         quantidades |-> sheet[i].quantidades]]

\* lines 84-90: an essential column the sheet lacks is created, filled with 0
\* (faltam holds the names of the columns the sheet lacks)
req_fill(rows, faltam) ==
    [i \in 1..Len(rows) |->
        [rows[i] EXCEPT
            !.codigo = IF "codigo" \in faltam THEN <<"0">> ELSE @,
            !.estoque_atual = IF "estoque_atual" \in faltam THEN 0 ELSE @]]

\* carregar_produtos() against a source: the request fails (the except branch
\* answers an empty table) or the sheet is read, completed and keyed
carregar(fonte) ==
    IF ~fonte.ok THEN <<>>
    ELSE carregar_produtos(req_fill(fonte.rows, fonte.faltam))

\* lines 304-307: an empty products table stops the script
tela_inicial(df) == IF df = <<>> THEN "parado" ELSE "inicio"

\* ------------------------------------------------------ movimentar_estoque
\* the payload of one request: quantidade goes through safe_int(x, 0)
Payload(codigo, quantidade, tipo, colaborador) ==
    [codigo |-> codigo, quantidade |-> safe_int_any(quantidade, 0), tipo |-> tipo,
     colaborador |-> colaborador]

Simulado == [success |-> TRUE, message |-> "Simulado", novo_estoque |-> "SIMULACAO"]

\* what the call answers outside test mode: the decoded response, or the dict
\* of the except branch
Resposta(resposta) ==
    CASE resposta = "ok" -> [success |-> TRUE, message |-> "ok", novo_estoque |-> "novo"]
      [] resposta = "recusa" ->
            [success |-> FALSE, message |-> "recusa", novo_estoque |-> "None"]
      [] OTHER -> [success |-> FALSE, message |-> "Erro", novo_estoque |-> "None"]

\* movimentar_estoque with a bug: the request is posted in test mode too
movimentar_estoque_always(codigo, quantidade, tipo, colaborador, tm, resposta) ==
    [posted |-> <<Payload(codigo, quantidade, tipo, colaborador)>>,
     raised |-> FALSE,
     res |-> IF tm THEN Simulado ELSE Resposta(resposta)]

\* movimentar_estoque with a bug: no try / except around the request
movimentar_estoque_bare(codigo, quantidade, tipo, colaborador, tm, resposta) ==
    IF tm
    THEN [posted |-> <<>>, raised |-> FALSE, res |-> Simulado]
    ELSE [posted |-> <<Payload(codigo, quantidade, tipo, colaborador)>>,
          raised |-> resposta = "excecao",
          res |-> Resposta(resposta)]

\* movimentar_estoque(codigo, quantidade, tipo, colaborador, test_mode): what
\* it posts to WEBHOOK_URL, whether it raises, and the dict it returns.
\* resposta is what comes back: "ok" (success true), "recusa" (success false)
\* or "excecao" (the post or the decoding raised: the except branch answers
\* success false with 'Erro: ...').
movimentar_estoque(codigo, quantidade, tipo, colaborador, tm, resposta) ==
    IF tm
    THEN [posted |-> <<>>, raised |-> FALSE, res |-> Simulado]
    ELSE [posted |-> <<Payload(codigo, quantidade, tipo, colaborador)>>,
          raised |-> FALSE,
          res |-> Resposta(resposta)]

\* ----------------------------------------------------------- expandir_kits
RECURSIVE SumSeq(_)
SumSeq(s) == IF s = <<>> THEN 0 ELSE Head(s) + SumSeq(Tail(s))

\* Index of the last row of df whose codigo_key is k (a dict built row by
\* row keeps the last value written under a key); 0 when there is none.
LastRowOf(df, k) ==
    LET I == {i \in 1..Len(df) : df[i].codigo_key = k}
    IN IF I = {} THEN 0 ELSE CHOOSE i \in I : \A j \in I : j <= i

CatalogKeys(df) == {df[i].codigo_key : i \in 1..Len(df)}

\* key_to_code.get(k, '')
key_to_code(df, k) ==
    IF LastRowOf(df, k) = 0 THEN <<>> ELSE df[LastRowOf(df, k)].codigo

\* KitComps with a bug: the component codes are stripped but not normalized
KitComps_raw(row) ==
    LET nonblank(c) == Strip(c) # <<>>
        parts == SelectSeq(Split(row.componentes, ",", <<>>), nonblank)
    IN [i \in 1..Len(parts) |-> Strip(parts[i])]

\* comps of one products row
KitComps(row) ==
    LET nonblank(c) == Strip(c) # <<>>
        parts == SelectSeq(Split(row.componentes, ",", <<>>), nonblank)
    IN [i \in 1..Len(parts) |-> normalize_key(Strip(parts[i]))]

\* the quantity entries of a products row as written, stripped
RawQuants(row) ==
    LET parts == Split(row.quantidades, ",", <<>>)
    IN [i \in 1..Len(parts) |-> Strip(parts[i])]

\* ten times the number a text of digits with at most one '.' writes, to its
\* first decimal place
Tenths(t) ==
    LET dots == {i \in 1..Len(t) : t[i] = "."}
        k == IF dots = {} THEN Len(t) + 1 ELSE CHOOSE i \in dots : TRUE
    IN 10 * DigitsVal(SubSeq(t, 1, k - 1), 0)
          + (IF k < Len(t) THEN DigitVal(t[k + 1]) ELSE 0)

\* KitQuants with a bug: a quantity with a fraction is rounded to the nearest
\* whole number, halves upwards
KitQuants_round(row) ==
    [i \in 1..Len(parse_int_list(row.quantidades)) |->
        (Tenths(RawQuants(row)[i]) + 5) \div 10]

\* quants of one products row
KitQuants(row) == parse_int_list(row.quantidades)

\* the row passes "eh_kit == 'sim'" and "comps and quants and len(comps) == len(quants)"
RegistersKit(row) ==
    /\ Lower(Strip(row.eh_kit)) = <<"s", "i", "m">>
    /\ KitComps(row) # <<>>
    /\ KitQuants(row) # <<>>
    /\ Len(KitComps(row)) = Len(KitQuants(row))

RECURSIVE Zip(_, _)
\* list(zip(comps, quants))
Zip(comps, quants) ==
    IF comps = <<>> \/ quants = <<>> THEN <<>>
    ELSE <<[comp |-> Head(comps), qty |-> Head(quants)]>> \o Zip(Tail(comps), Tail(quants))

RECURSIVE KitsUpTo(_, _)
\* the kits dict after the first n rows of the loop: a row that registers
\* writes its key, over what an earlier row wrote under it
KitsUpTo(df, n) ==
    IF n = 0 THEN <<>>
    ELSE IF RegistersKit(df[n])
         THEN (df[n].codigo_key :> Zip(KitComps(df[n]), KitQuants(df[n])))
                 @@ KitsUpTo(df, n - 1)
         ELSE KitsUpTo(df, n - 1)

\* kits: key -> list(zip(comps, quants))
kits(df) == KitsUpTo(df, Len(df))

\* LinhasOf with a bug: only the part of the sold quantity that the kit's own
\* stock does not cover is handed to the components
LinhasOf_shortfall(row, ks) ==
    LET code_key == normalize_key(row.codigo)
        onhand == IF code_key \in CatalogKeys(produtos_df)
                  THEN produtos_df[LastRowOf(produtos_df, code_key)].estoque_atual
                  ELSE 0
        avail == IF onhand > 0 THEN onhand ELSE 0
        qty == IF row.quantidade > avail THEN row.quantidade - avail ELSE 0
    IN IF code_key \in DOMAIN ks
       THEN [n \in 1..Len(ks[code_key]) |->
               [codigo_key |-> ks[code_key][n].comp,
                quantidade |-> qty * ks[code_key][n].qty]]
       ELSE <<[codigo_key |-> code_key, quantidade |-> row.quantidade]>>

RECURSIVE ConcatAll(_)
ConcatAll(ss) == IF ss = <<>> THEN <<>> ELSE Head(ss) \o ConcatAll(Tail(ss))

\* LinhasOf with a bug: a component that is itself a registered kit is
\* expanded once more into its own components
LinhasOf_twolevel(row, ks) ==
    LET qty == row.quantidade
        code_key == normalize_key(row.codigo)
        sub(c, q) ==
            IF c \in DOMAIN ks
            THEN [m \in 1..Len(ks[c]) |->
                    [codigo_key |-> ks[c][m].comp, quantidade |-> q * ks[c][m].qty]]
            ELSE <<[codigo_key |-> c, quantidade |-> q]>>
    IN IF code_key \in DOMAIN ks
       THEN ConcatAll([n \in 1..Len(ks[code_key]) |->
               sub(ks[code_key][n].comp, qty * ks[code_key][n].qty)])
       ELSE <<[codigo_key |-> code_key, quantidade |-> qty]>>

\* LinhasOf with a bug: a kit that lists its own key goes round once more, the
\* multiplier applied again to that component
LinhasOf_cycle(row, ks) ==
    LET qty == row.quantidade
        code_key == normalize_key(row.codigo)
    IN IF code_key \in DOMAIN ks
       THEN [n \in 1..Len(ks[code_key]) |->
               [codigo_key |-> ks[code_key][n].comp,
                quantidade |->
                   IF ks[code_key][n].comp = code_key
                   THEN qty * ks[code_key][n].qty * ks[code_key][n].qty
                   ELSE qty * ks[code_key][n].qty]]
       ELSE <<[codigo_key |-> code_key, quantidade |-> qty]>>

\* LinhasOf with a bug: a product that is no kit also hands its quantity,
\* times the listed quantity, to the components its row names
LinhasOf_recipe(row, ks) ==
    LET qty == row.quantidade
        code_key == normalize_key(row.codigo)
        j == LastRowOf(produtos_df, code_key)
        comps == KitComps(produtos_df[j])
        quants == KitQuants(produtos_df[j])
    IN IF code_key \in DOMAIN ks
       THEN [n \in 1..Len(ks[code_key]) |->
               [codigo_key |-> ks[code_key][n].comp,
                quantidade |-> qty * ks[code_key][n].qty]]
       ELSE <<[codigo_key |-> code_key, quantidade |-> qty]>>
            \o (IF j # 0 /\ Len(comps) = Len(quants)
                THEN [n \in 1..Len(comps) |->
                        [codigo_key |-> comps[n], quantidade |-> qty * quants[n]]]
                ELSE <<>>)

\* the lines one sales row appends to linhas
LinhasOf(row, ks) ==
    LET qty == row.quantidade
        code_key == normalize_key(row.codigo)
    IN IF code_key \in DOMAIN ks
       THEN [n \in 1..Len(ks[code_key]) |->
               [codigo_key |-> ks[code_key][n].comp,
                quantidade |-> qty * ks[code_key][n].qty]]
       ELSE <<[codigo_key |-> code_key, quantidade |-> qty]>>

RECURSIVE Linhas(_, _)
\* linhas after the loop over df_fatura
Linhas(df_fatura, ks) ==
    IF df_fatura = <<>> THEN <<>>
    ELSE LinhasOf(Head(df_fatura), ks) \o Linhas(Tail(df_fatura), ks)

\* df.groupby('codigo_key', as_index=False)['quantidade'].sum()
GroupByKey(linhas) ==
    LET keys == SortStrs({linhas[i].codigo_key : i \in 1..Len(linhas)})
        pick(k) == LET of(l) == l.codigo_key = k
                       sel == SelectSeq(linhas, of)
                   IN [i \in 1..Len(sel) |-> sel[i].quantidade]
    IN [i \in 1..Len(keys) |->
          [codigo_key |-> keys[i], quantidade |-> SumSeq(pick(keys[i]))]]

\* the result rows: codigo_key, quantidade, codigo_canonical, codigo
OutRow(key, qty, canonical, codigo) ==
    [codigo_key |-> key, quantidade |-> qty, codigo_canonical |-> canonical,
     codigo |-> codigo]

\* lines 182-187: the frame built from linhas, grouped, with its code columns
ExpandedFrame(linhas, df, ks) ==
    IF linhas = <<>>
    THEN [raised |-> TRUE, kits |-> ks, linhas |-> linhas, rows |-> <<>>]
    ELSE [raised |-> FALSE, kits |-> ks, linhas |-> linhas,
          rows |-> LET g == GroupByKey(linhas)
                   IN [i \in 1..Len(g) |->
                         LET canon == key_to_code(df, g[i].codigo_key)
                         IN OutRow(g[i].codigo_key, g[i].quantidade, canon,
                                   IF canon # <<>> THEN canon ELSE g[i].codigo_key)]]

\* lines 165-170: no kit is registered, the sales rows are only given their keys
PlainFrame(df_fatura, df) ==
    [raised |-> FALSE, kits |-> <<>>, linhas |-> <<>>,
     rows |-> [i \in 1..Len(df_fatura) |->
        LET k == normalize_key(df_fatura[i].codigo)
            canon == key_to_code(df, k)
        IN OutRow(k, df_fatura[i].quantidade, canon,
                  IF canon # <<>> THEN canon ELSE df_fatura[i].codigo)]]

\* expandir_kits with its kits dict built
ExpandWith(df_fatura, df, ks) ==
    IF DOMAIN ks = {} THEN PlainFrame(df_fatura, df)
    ELSE ExpandedFrame(Linhas(df_fatura, ks), df, ks)

\* expandir_kits(df_fatura, produtos_df): raised is TRUE when the call raises
\* (groupby('codigo_key') on the column-less frame built from an empty linhas).
expandir_kits(df_fatura, df) == ExpandWith(df_fatura, df, kits(df))

\* ------------------------------------------------- reading the sales file
\* df.groupby('codigo', as_index=False)['quantidade'].sum()
GroupByCodigo(rows) ==
    LET codes == SortStrs({rows[i].codigo : i \in 1..Len(rows)})
        pick(c) == LET of(l) == l.codigo = c
                       sel == SelectSeq(rows, of)
                   IN [i \in 1..Len(sel) |-> sel[i].quantidade]
    IN [i \in 1..Len(codes) |->
          [codigo |-> codes[i], quantidade |-> SumSeq(pick(codes[i]))]]

\* codigo stripped, quantidade through safe_int(x, 0)
CleanSales(arq) ==
    [i \in 1..Len(arq) |->
        [codigo |-> Strip(arq[i].codigo),
         quantidade |-> safe_int(arq[i].quantidade, 0)]]

\* the sales frame the shortage report hands to expandir_kits
VendasFaltantes(arq) == GroupByCodigo(CleanSales(arq))

\* the sales frame processar_faturamento hands to expandir_kits: rows with an
\* empty code or a quantity <= 0 are dropped before the groupby
VendasFatura(arq) ==
    LET valid(l) == l.codigo # <<>> /\ l.quantidade > 0
    IN GroupByCodigo(SelectSeq(CleanSales(arq), valid))

\* ------------------------------------------------- Relatorio de Faltantes
\* the row falt gets for one row of df_v, or no row
FaltRows(row, df) ==
    LET key == row.codigo_key
        q == row.quantidade
        prod == df[LastRowOf(df, key)]
        est == prod.estoque_atual
    IN IF key \in CatalogKeys(df)
       THEN IF est < q
            THEN <<[codigo |-> prod.codigo, codigo_key |-> key,
                    estoque_atual |-> est, qtd_necessaria |-> q,
                    falta |-> q - est, tipo |-> "Produto/Componente"]>>
            ELSE <<>>
       ELSE <<[codigo |-> row.codigo, codigo_key |-> key, estoque_atual |-> 0,
               qtd_necessaria |-> q, falta |-> q, tipo |-> "Nao cadastrado"]>>

RECURSIVE Faltantes(_, _)
\* falt after the loop over df_v
Faltantes(df_v, df) ==
    IF df_v = <<>> THEN <<>>
    ELSE FaltRows(Head(df_v), df) \o Faltantes(Tail(df_v), df)

\* ---------------------------------------------------- processar_faturamento
\* prods_ok: the found rows, enriched from est_map (last row of the key)
ProdsOk(rows, df) ==
    LET found(r) == r.codigo_key \in CatalogKeys(df)
        sel == SelectSeq(rows, found)
    IN [i \in 1..Len(sel) |->
          LET prod == df[LastRowOf(df, sel[i].codigo_key)]
          IN [codigo |-> sel[i].codigo, codigo_key |-> sel[i].codigo_key,
              quantidade |-> sel[i].quantidade,
              codigo_canonical |-> prod.codigo,
              estoque_atual |-> prod.estoque_atual,
              estoque_final |-> prod.estoque_atual - sel[i].quantidade]]

\* ProdsNok with a bug: the code as written, not its key, is looked up
ProdsNok_bycode(rows, df) ==
    LET notfound(r) == r.codigo \notin CatalogKeys(df)
        sel == SelectSeq(rows, notfound)
    IN [i \in 1..Len(sel) |->
          [codigo |-> sel[i].codigo, quantidade |-> sel[i].quantidade,
           codigo_key |-> sel[i].codigo_key]]

\* prods_nok: the rows whose key is no catalog key
ProdsNok(rows, df) ==
    LET notfound(r) == r.codigo_key \notin CatalogKeys(df)
        sel == SelectSeq(rows, notfound)
    IN [i \in 1..Len(sel) |->
          [codigo |-> sel[i].codigo, quantidade |-> sel[i].quantidade,
           codigo_key |-> sel[i].codigo_key]]

\* -------------------------------------------------------------- inputs
\* product codes of the sheet: "a" and "A" share the key "A"
SheetCodes == {<<"A">>, <<"a">>, <<"B">>}

Sim == <<"S", "i", "m">>

\* an empty cell after astype(str)
Nan == <<"n", "a", "n">>

\* eh_kit / componentes / quantidades cells of a kit row: a one-component
\* kit whose quantity is written with a fraction, a two-component kit naming
\* the key A with an accent and a blank, and a kit whose lists differ in length
KitCells ==
    {[eh_kit |-> Sim, componentes |-> <<"B">>, quantidades |-> <<"2", ".", "5">>],
     [eh_kit |-> Sim, componentes |-> <<"a_acute", ",", " ", "B">>,
      quantidades |-> <<"2", ",", "1">>],
     [eh_kit |-> Sim, componentes |-> <<"a", ",", "B">>, quantidades |-> <<"2">>]}

\* a product that is no kit, its component columns naming another product
PlainRow(c, e) ==
    SheetRow(c, e, Nan, IF c = <<"B">> THEN <<"a">> ELSE <<"B">>, <<"2">>)

\* rows of the sheet: every code as a plain product and as each kind of kit
\* at a stock of 2, and plain products at a negative stock
SheetRows ==
    {SheetRow(c, 2, k.eh_kit, k.componentes, k.quantidades) :
        c \in SheetCodes, k \in KitCells}
    \cup {PlainRow(c, 2) : c \in SheetCodes}
    \cup {PlainRow(c, -1) : c \in {<<"a">>, <<"B">>}}

SeqsUpTo(S, n) == UNION {[1..m -> S] : m \in 0..n}

\* the sheet has at least one row (an empty table stops the script)
Sheets == SeqsUpTo(SheetRows, MaxProd) \ {<<>>}

\* codes of the sales file: " a_acute" differs from the sheet's "a" by a blank
\* and an accent, and from "A" by the letter case as well
SaleCodes == {<<"A">>, <<" ", "a_acute">>, <<"B">>}

SaleQtys == {<<"2">>}

SaleLines == {[codigo |-> c, quantidade |-> q] : c \in SaleCodes, q \in SaleQtys}

Files == SeqsUpTo(SaleLines, MaxLines)

NoExpansao == [raised |-> FALSE, kits |-> <<>>, linhas |-> <<>>, rows |-> <<>>]

\* no helper was called
NoChamada == [fn |-> "-"]

\* the sheet answered and held every column
CargaOk == [ok |-> TRUE, faltam |-> {}]

Init ==
    /\ produtos_df \in {carregar_produtos(sheet) : sheet \in Sheets}
    /\ carga = CargaOk
    /\ test_mode = FALSE
    /\ enviados = <<>>
    /\ resultados = <<>>
    /\ chamada = NoChamada
    /\ tela = "inicio"
    /\ arquivo = <<>>
    /\ vendas = <<>>
    /\ expansao = NoExpansao
    /\ falt = <<>>
    /\ prods_ok = <<>>
    /\ prods_nok = <<>>
    /\ erro = FALSE

\* "Relatorio de Faltantes" with the file arq uploaded: expand, list the
\* shortages
RelatorioDe(arq) ==
    /\ tela = "inicio"
    /\ tela' = "faltantes"
    /\ arquivo' = arq
    /\ vendas' = VendasFaltantes(arq)
    /\ expansao' = expandir_kits(vendas', produtos_df)
    /\ erro' = expansao'.raised
    /\ falt' = IF expansao'.raised THEN <<>>
               ELSE Faltantes(expansao'.rows, produtos_df)
    /\ prods_ok' = <<>>
    /\ prods_nok' = <<>>
    /\ enviados' = <<>>
    /\ resultados' = <<>>
    /\ UNCHANGED <<produtos_df, carga, test_mode, chamada>>

\* "Relatorio de Faltantes": upload, expand, list the shortages
RelatorioFaltantes == \E arq \in Files : RelatorioDe(arq)

\* BaixaPorFaturamento with a bug: the preview writes each found row's final
\* stock into the products table
BaixaPorFaturamento_writes ==
    \E arq \in Files :
        /\ tela = "inicio"
        /\ tela' = "baixa"
        /\ arquivo' = arq
        /\ vendas' = VendasFatura(arq)
        /\ expansao' = expandir_kits(vendas', produtos_df)
        /\ erro' = expansao'.raised
        /\ prods_ok' = IF expansao'.raised THEN <<>>
                       ELSE ProdsOk(expansao'.rows, produtos_df)
        /\ prods_nok' = IF expansao'.raised THEN <<>>
                        ELSE ProdsNok(expansao'.rows, produtos_df)
        /\ falt' = <<>>
        /\ enviados' = <<>>
        /\ resultados' = <<>>
        /\ produtos_df' =
              [j \in 1..Len(produtos_df) |->
                 IF \E r \in Range(prods_ok') : r.codigo_key = produtos_df[j].codigo_key
                 THEN [produtos_df[j] EXCEPT !.estoque_atual =
                         (CHOOSE r \in Range(prods_ok') :
                             r.codigo_key = produtos_df[j].codigo_key).estoque_final]
                 ELSE produtos_df[j]]
        /\ UNCHANGED <<carga, test_mode, chamada>>

\* "Baixa por Faturamento": upload and preview through processar_faturamento
BaixaPorFaturamento ==
    \E arq \in Files :
        /\ tela = "inicio"
        /\ tela' = "baixa"
        /\ arquivo' = arq
        /\ vendas' = VendasFatura(arq)
        /\ expansao' = expandir_kits(vendas', produtos_df)
        /\ erro' = expansao'.raised
        /\ prods_ok' = IF expansao'.raised THEN <<>>
                       ELSE ProdsOk(expansao'.rows, produtos_df)
        /\ prods_nok' = IF expansao'.raised THEN <<>>
                        ELSE ProdsNok(expansao'.rows, produtos_df)
        /\ falt' = <<>>
        /\ enviados' = <<>>
        /\ resultados' = <<>>
        /\ UNCHANGED <<produtos_df, carga, test_mode, chamada>>

\* the page is left (the uploader is cleared): the script reruns from the top
\* with the same cached products table
Voltar ==
    /\ tela \notin {"inicio", "parado", "helper"}
    /\ tela' = "inicio"
    /\ arquivo' = <<>>
    /\ vendas' = <<>>
    /\ expansao' = NoExpansao
    /\ falt' = <<>>
    /\ prods_ok' = <<>>
    /\ prods_nok' = <<>>
    /\ erro' = FALSE
    /\ enviados' = <<>>
    /\ resultados' = <<>>
    /\ UNCHANGED <<produtos_df, carga, test_mode, chamada>>

Next == RelatorioFaltantes \/ BaixaPorFaturamento \/ Voltar

Spec == Init /\ [][Next]_vars

\* ------------------------------------- the whole cockpit on small sheets
\* kit cells whose quantidades column has an entry that is no number, or a
\* blank entry, before the quantities of the two components
KitCellsShift ==
    {[eh_kit |-> Sim, componentes |-> <<"a", ",", "B">>,
      quantidades |-> <<"x", ",", "2", ",", "3">>],
     [eh_kit |-> Sim, componentes |-> <<"a", ",", "B">>,
      quantidades |-> <<" ", ",", "2", ",", "3">>]}

SheetRowsOps ==
    SheetRows
    \cup {SheetRow(c, 2, k.eh_kit, k.componentes, k.quantidades) :
            c \in SheetCodes, k \in KitCellsShift}

\* quantities of the sales file that are no count: zero, a negative number
SaleQtysOps == {<<"0">>, <<"-", "1">>}

\* the sales lines, and the code B sold with a quantity that is no count
SaleLinesOps ==
    SaleLines \cup {[codigo |-> <<"B">>, quantidade |-> q] : q \in SaleQtysOps}

FilesOps == SeqsUpTo(SaleLinesOps, MaxLines)

\* sheets of one row
SheetsOps == {<<r>> : r \in SheetRowsOps}

\* what the request for the sheet can bring: every column, no estoque_atual
\* column, no row at all, or no answer
Fontes ==
    {[ok |-> TRUE, faltam |-> m, rows |-> sh] :
        m \in {{}, {"estoque_atual"}}, sh \in SheetsOps}
    \cup {[ok |-> TRUE, faltam |-> {}, rows |-> <<>>],
          [ok |-> FALSE, faltam |-> {}, rows |-> <<>>]}

Respostas == {"ok", "recusa", "excecao"}

\* quantities typed for a manual movement
QtdMov == {1, 2}

Colaborador == "Pericles"

InitOps ==
    \E f \in Fontes :
        /\ produtos_df = carregar(f)
        /\ carga = [ok |-> f.ok, faltam |-> f.faltam]
        /\ tela = tela_inicial(carregar(f))
        /\ arquivo = <<>>
        /\ vendas = <<>>
        /\ expansao = NoExpansao
        /\ falt = <<>>
        /\ prods_ok = <<>>
        /\ prods_nok = <<>>
        /\ erro = FALSE
        /\ test_mode \in BOOLEAN
        /\ enviados = <<>>
        /\ resultados = <<>>
        /\ chamada = NoChamada

\* "Movimentacao": + Entrada or - Saida of one product.  A saida is at most
\* max(1, estoque_atual).  Outside test mode a success clears the cache and
\* reruns the script, which loads the sheet again and shows the page with no
\* button pressed.
Movimentacao ==
    \E p \in 1..Len(produtos_df), tipo \in {"entrada", "saida"}, qtd \in QtdMov,
       resp \in Respostas, f \in Fontes :
        LET r == movimentar_estoque(produtos_df[p].codigo, [t |-> "int", v |-> qtd],
                                    tipo, Colaborador, test_mode, resp)
            rerun == ~test_mode /\ ~r.raised /\ r.res.success
        IN /\ tela = "inicio"
           /\ tipo = "saida" =>
                 qtd <= (IF produtos_df[p].estoque_atual > 1
                         THEN produtos_df[p].estoque_atual ELSE 1)
           /\ enviados' = r.posted
           /\ resultados' = IF r.raised THEN <<>> ELSE <<r.res>>
           /\ IF rerun
              THEN /\ produtos_df' = carregar(f)
                   /\ carga' = [ok |-> f.ok, faltam |-> f.faltam]
                   /\ tela' = tela_inicial(carregar(f))
              ELSE /\ tela' = "movimento"
                   /\ UNCHANGED <<produtos_df, carga>>
           /\ UNCHANGED <<arquivo, vendas, expansao, falt, prods_ok, prods_nok, erro,
                          test_mode, chamada>>

\* one row of the batch report (lines 543-564)
Resultado(row, res) ==
    [codigo |-> row.codigo_canonical, qtd_baixada |-> row.quantidade,
     success |-> res.success,
     novo_estoque |-> IF res.success THEN res.novo_estoque ELSE "N/A",
     status |-> IF res.success THEN "Sucesso" ELSE "Erro: " \o res.message]

\* AplicarBaixas with a bug: the loop ends at the first movement that fails
AplicarBaixas_stops ==
    \E resps \in [1..Len(prods_ok) -> Respostas] :
        LET calls == [i \in 1..Len(prods_ok) |->
                        movimentar_estoque(prods_ok[i].codigo_canonical,
                                           [t |-> "int", v |-> prods_ok[i].quantidade],
                                           "saida", Colaborador, test_mode, resps[i])]
            fails == {i \in 1..Len(prods_ok) : ~calls[i].res.success}
            called == IF fails = {} THEN Len(prods_ok)
                      ELSE CHOOSE i \in fails : \A k \in fails : i <= k
        IN /\ tela = "baixa"
           /\ ~erro
           /\ prods_ok # <<>>
           /\ tela' = "baixado"
           /\ enviados' = ConcatAll([i \in 1..called |-> calls[i].posted])
           /\ resultados' = [i \in 1..called |-> Resultado(prods_ok[i], calls[i].res)]
           /\ UNCHANGED <<produtos_df, arquivo, vendas, expansao, falt, prods_ok,
                          prods_nok, erro, carga, test_mode, chamada>>

\* the "SIMULAR baixas" / "APLICAR baixas" button under the preview: one
\* movimentar_estoque call per found row, in row order; a call that raises
\* ends the loop and the script
AplicarBaixas ==
    \E resps \in [1..Len(prods_ok) -> Respostas] :
        LET calls == [i \in 1..Len(prods_ok) |->
                        movimentar_estoque(prods_ok[i].codigo_canonical,
                                           [t |-> "int", v |-> prods_ok[i].quantidade],
                                           "saida", Colaborador, test_mode, resps[i])]
            raises == {i \in 1..Len(prods_ok) : calls[i].raised}
            called == IF raises = {} THEN Len(prods_ok)
                      ELSE CHOOSE i \in raises : \A k \in raises : i <= k
            answered == IF raises = {} THEN called ELSE called - 1
        IN /\ tela = "baixa"
           /\ ~erro
           /\ prods_ok # <<>>
           /\ tela' = "baixado"
           /\ enviados' = ConcatAll([i \in 1..called |-> calls[i].posted])
           /\ resultados' = [i \in 1..answered |-> Resultado(prods_ok[i], calls[i].res)]
           /\ UNCHANGED <<produtos_df, arquivo, vendas, expansao, falt, prods_ok,
                          prods_nok, erro, carga, test_mode, chamada>>

\* the "Modo Teste" checkbox is flipped: the script reruns with no button
\* pressed
AlternarModoTeste ==
    /\ tela \notin {"parado", "helper"}
    /\ test_mode' = ~test_mode
    /\ tela' = "inicio"
    /\ arquivo' = <<>>
    /\ vendas' = <<>>
    /\ expansao' = NoExpansao
    /\ falt' = <<>>
    /\ prods_ok' = <<>>
    /\ prods_nok' = <<>>
    /\ erro' = FALSE
    /\ enviados' = <<>>
    /\ resultados' = <<>>
    /\ UNCHANGED <<produtos_df, carga, chamada>>

\* a rerun after the cache expired or was cleared ("Atualizar Dados", an
\* applied batch, a page refresh): the sheet is loaded again
Recarregar ==
    \E f \in Fontes :
        /\ tela # "helper"
        /\ produtos_df' = carregar(f)
        /\ carga' = [ok |-> f.ok, faltam |-> f.faltam]
        /\ tela' = tela_inicial(carregar(f))
        /\ arquivo' = <<>>
        /\ vendas' = <<>>
        /\ expansao' = NoExpansao
        /\ falt' = <<>>
        /\ prods_ok' = <<>>
        /\ prods_nok' = <<>>
        /\ erro' = FALSE
        /\ enviados' = <<>>
        /\ resultados' = <<>>
        /\ UNCHANGED <<test_mode, chamada>>

\* "Relatorio de Faltantes" on a sales file with any quantities
RelatorioFaltantesOps == \E arq \in FilesOps : RelatorioDe(arq)

NextOps ==
    \/ RelatorioFaltantesOps
    \/ BaixaPorFaturamento
    \/ Voltar
    \/ Movimentacao
    \/ AplicarBaixas
    \/ AlternarModoTeste
    \/ Recarregar

SpecOps == InitOps /\ [][NextOps]_vars

\* ------------------------------------------------------ the helpers alone
\* characters of the texts handed to normalize_key
NormChars == {" ", "-", ".", "a", "B", "a_acute", "C_ced", "sz", "acute", "2"}

NormTexts == SeqsUpTo(NormChars, MaxText)

\* no page ran: one helper function is called, once
InitHelpers ==
    /\ produtos_df = <<>>
    /\ tela = "helper"
    /\ arquivo = <<>>
    /\ vendas = <<>>
    /\ expansao = NoExpansao
    /\ falt = <<>>
    /\ prods_ok = <<>>
    /\ prods_nok = <<>>
    /\ erro = FALSE
    /\ carga = CargaOk
    /\ test_mode = FALSE
    /\ enviados = <<>>
    /\ resultados = <<>>
    /\ chamada = NoChamada

\* characters of the texts handed to safe_int
IntChars == {" ", ",", ".", "-", "1", "5", "n", "a", "x"}

\* values handed to safe_int
IntValues ==
    {[t |-> "None"], [t |-> "NaN"]}
    \cup {[t |-> "str", s |-> x] : x \in SeqsUpTo(IntChars, MaxText)}
    \cup {[t |-> "int", v |-> n] : n \in {-1, 0, 7}}

\* defaults handed to safe_int: 0 when none is given
IntDefaults == {0, 9}

\* stock levels of one product
Levels == -1..3

\* normalize_key(s) is called
ChamarNormalizeKey ==
    \E s \in NormTexts :
        /\ tela = "helper"
        /\ chamada = NoChamada
        /\ chamada' = [fn |-> "normalize_key", arg |-> s, ret |-> normalize_key(s)]
        /\ UNCHANGED <<produtos_df, tela, arquivo, vendas, expansao, falt, prods_ok,
                       prods_nok, erro, carga, test_mode, enviados, resultados>>

\* safe_int(x, default) is called
ChamarSafeInt ==
    \E x \in IntValues, d \in IntDefaults :
        /\ tela = "helper"
        /\ chamada = NoChamada
        /\ chamada' = [fn |-> "safe_int", arg |-> x, default |-> d,
                       ret |-> safe_int_any(x, d)]
        /\ UNCHANGED <<produtos_df, tela, arquivo, vendas, expansao, falt, prods_ok,
                       prods_nok, erro, carga, test_mode, enviados, resultados>>

\* one product is classified by both apps: calcular_semaforo of the main app,
\* adicionar_status of the mobile app
ChamarStatus ==
    \E a \in Levels, mn \in Levels, mx \in Levels :
        /\ tela = "helper"
        /\ chamada = NoChamada
        /\ chamada' = [fn |-> "status", estoque_atual |-> a, estoque_min |-> mn,
                       estoque_max |-> mx,
                       main |-> calcular_semaforo(a, mn, mx),
                       mobile |-> adicionar_status([estoque_atual |-> a,
                                                    estoque_min |-> mn,
                                                    estoque_max |-> mx])]
        /\ UNCHANGED <<produtos_df, tela, arquivo, vendas, expansao, falt, prods_ok,
                       prods_nok, erro, carga, test_mode, enviados, resultados>>

\* characters of the quantity texts handed to movimentar_estoque
QtdChars == {" ", ",", "1", "x"}

\* quantities handed to movimentar_estoque
QtdValues ==
    {[t |-> "None"], [t |-> "NaN"]}
    \cup {[t |-> "str", s |-> x] : x \in SeqsUpTo(QtdChars, MaxText)}
    \cup {[t |-> "int", v |-> n] : n \in {-1, 0, 7}}

\* movimentar_estoque is called with any quantity, in or out of test mode
ChamarMovimentar ==
    \E q \in QtdValues, tm \in BOOLEAN, resp \in Respostas :
        /\ tela = "helper"
        /\ chamada = NoChamada
        /\ chamada' = [fn |-> "movimentar_estoque", quantidade |-> q, test_mode |-> tm,
                       resposta |-> resp,
                       ret |-> movimentar_estoque(<<"A">>, q, "saida", Colaborador,
                                                  tm, resp)]
        /\ UNCHANGED <<produtos_df, tela, arquivo, vendas, expansao, falt, prods_ok,
                       prods_nok, erro, carga, test_mode, enviados, resultados>>

NextHelpers == ChamarNormalizeKey \/ ChamarSafeInt \/ ChamarStatus \/ ChamarMovimentar

SpecHelpers == InitHelpers /\ [][NextHelpers]_vars

\* ======================================================================
\* Properties
\* ======================================================================
\* a handler ran to its end without raising
Concluded == tela # "inicio" /\ ~erro

\* the kits dict the expansion built from the products table
Ks == expansao.kits

SoldKey(i) == normalize_key(vendas[i].codigo)

SoldKeys == {SoldKey(i) : i \in 1..Len(vendas)}

\* on-hand quantity the program reads for a key
OnHand(k) == produtos_df[LastRowOf(produtos_df, k)].estoque_atual

\* how many of c one unit of the kit k lists
PerUnit(k, c) ==
    SumSeq([n \in 1..Len(Ks[k]) |-> IF Ks[k][n].comp = c THEN Ks[k][n].qty ELSE 0])

\* demand the i-th sales row routes to the key c in one pass
Routed(i, c) ==
    IF SoldKey(i) \in DOMAIN Ks THEN vendas[i].quantidade * PerUnit(SoldKey(i), c)
    ELSE IF SoldKey(i) = c THEN vendas[i].quantidade ELSE 0

RoutedTotal(c) == SumSeq([i \in 1..Len(vendas) |-> Routed(i, c)])

\* quantity the expanded rows carry for the key c, over all its rows
TotalQty(c) ==
    SumSeq([i \in 1..Len(expansao.rows) |->
        IF expansao.rows[i].codigo_key = c THEN expansao.rows[i].quantidade ELSE 0])

\* ---------------------------------------------------------------- C1
\* C1 (as claimed): shortfall-only rule.  A row of the expanded demand for a
\* key that was not itself sold exists only because some sold kit listing it
\* has more demand than on-hand stock.
C1_ShortfallOnly ==
    Concluded =>
        \A r \in Range(expansao.rows) :
            \/ r.codigo_key \in SoldKeys
            \/ \E i \in 1..Len(vendas) :
                  /\ SoldKey(i) \in DOMAIN Ks
                  /\ PerUnit(SoldKey(i), r.codigo_key) > 0
                  /\ SoldKey(i) \in CatalogKeys(produtos_df)
                  /\ vendas[i].quantidade > OnHand(SoldKey(i))

\* C1 (amended): stock plays no part in the expansion.  Every sold kit hands
\* each of its components the full sold quantity times the multiplier, whatever
\* the kit's own stock; stock is compared only in the shortage report, where a
\* registered row is listed only when its stock is below the quantity of a row
\* of the expanded demand.
C1_StockOnlyInReport ==
    Concluded =>
        /\ \A i \in 1..Len(vendas) :
              SoldKey(i) \in DOMAIN Ks =>
                 \A n \in 1..Len(Ks[SoldKey(i)]) :
                    \E l \in Range(expansao.linhas) :
                       /\ l.codigo_key = Ks[SoldKey(i)][n].comp
                       /\ l.quantidade = vendas[i].quantidade * Ks[SoldKey(i)][n].qty
        /\ \A f \in Range(falt) :
              f.tipo = "Produto/Componente" =>
                 /\ f.estoque_atual < f.qtd_necessaria
                 /\ f.falta = f.qtd_necessaria - f.estoque_atual
                 /\ \E r \in Range(expansao.rows) :
                       /\ r.codigo_key = f.codigo_key
                       /\ r.quantidade = f.qtd_necessaria

\* a registered kit was sold while its own stock covered the sold quantity,
\* and the shortage report lists one of its components
C1_Witness ==
    /\ tela = "faltantes" /\ ~erro
    /\ \E i \in 1..Len(vendas) :
          /\ SoldKey(i) \in DOMAIN Ks
          /\ OnHand(SoldKey(i)) >= vendas[i].quantidade
          /\ \E f \in Range(falt) :
                /\ f.tipo = "Produto/Componente"
                /\ PerUnit(SoldKey(i), f.codigo_key) > 0
                /\ f.codigo_key \notin SoldKeys

\* ---------------------------------------------------------------- C2
Max0(x) == IF x > 0 THEN x ELSE 0

\* stock available for a key: unknown keys have none, negative stock counts as 0
Available(k) == IF k \in CatalogKeys(produtos_df) THEN Max0(OnHand(k)) ELSE 0

\* every key the run touches
KeysSeen ==
    SoldKeys \cup {expansao.rows[i].codigo_key : i \in 1..Len(expansao.rows)}
             \cup UNION {{Ks[k][n].comp : n \in 1..Len(Ks[k])} : k \in DOMAIN Ks}

\* C2 (as claimed): multi-level explosion.  Each component of a sold kit gets
\* the kit's shortfall times the multiplier, and no row of the final demand is
\* a registered kit with uncovered demand left unexpanded.
C2_MultiLevel ==
    Concluded =>
        /\ \A i \in 1..Len(vendas) :
              SoldKey(i) \in DOMAIN Ks =>
                 \A n \in 1..Len(Ks[SoldKey(i)]) :
                    \E l \in Range(expansao.linhas) :
                       /\ l.codigo_key = Ks[SoldKey(i)][n].comp
                       /\ l.quantidade =
                             Max0(vendas[i].quantidade - Available(SoldKey(i)))
                                * Ks[SoldKey(i)][n].qty
        /\ \A r \in Range(expansao.rows) :
              ~(r.codigo_key \in DOMAIN Ks /\ r.quantidade > Available(r.codigo_key))

\* C2 (amended): single-level explosion of the full demand.  For every key
\* the quantity of the final demand is the sum, over the sales rows, of the
\* sold quantity times the multiplier the sold kit lists for that key (the
\* sold quantity itself for a product that is no kit); a component that is
\* itself a registered kit keeps that demand and is not expanded again.
C2_SingleLevel ==
    Concluded => \A c \in KeysSeen : TotalQty(c) = RoutedTotal(c)

\* a sold kit lists a component that is a registered kit, and the final demand
\* has a row for that component
C2_Witness ==
    /\ Concluded
    /\ \E i \in 1..Len(vendas) :
          /\ SoldKey(i) \in DOMAIN Ks
          /\ \E r \in Range(expansao.rows) :
                /\ r.codigo_key \in DOMAIN Ks
                /\ r.codigo_key # SoldKey(i)
                /\ PerUnit(SoldKey(i), r.codigo_key) > 0

\* ---------------------------------------------------------------- C3
\* the catalog row read for the key k is no kit and names components with
\* quantities
PlainWithComponents(k) ==
    /\ k \in CatalogKeys(produtos_df)
    /\ k \notin DOMAIN Ks
    /\ Lower(Strip(produtos_df[LastRowOf(produtos_df, k)].eh_kit)) # <<"s", "i", "m">>
    /\ KitComps(produtos_df[LastRowOf(produtos_df, k)]) # <<>>
    /\ Len(KitComps(produtos_df[LastRowOf(produtos_df, k)]))
          = Len(KitQuants(produtos_df[LastRowOf(produtos_df, k)]))

\* C3 (as claimed): a simple product with a positive shortfall adds
\* shortfall x quantity-per-unit to each component its row names.
C3_RecipeContribution ==
    Concluded =>
        \A i \in 1..Len(vendas) :
            (PlainWithComponents(SoldKey(i)) /\ vendas[i].quantidade > Available(SoldKey(i))) =>
                LET row == produtos_df[LastRowOf(produtos_df, SoldKey(i))]
                IN \A n \in 1..Len(KitComps(row)) :
                      TotalQty(KitComps(row)[n]) >=
                         (vendas[i].quantidade - Available(SoldKey(i))) * KitQuants(row)[n]

\* C3 (amended): a product that is no registered kit is a leaf.  It hands its
\* sold quantity to its own key and to nothing else: every row of the final
\* demand is for a sold key or for a component of a sold registered kit, every
\* sold product that is no kit has a row, and a key that is no registered kit
\* and that no sold kit lists carries exactly the quantities sold under it.
C3_SimpleIsLeaf ==
    Concluded =>
        /\ \A r \in Range(expansao.rows) :
              \/ r.codigo_key \in SoldKeys
              \/ \E i \in 1..Len(vendas) :
                    /\ SoldKey(i) \in DOMAIN Ks
                    /\ \E n \in 1..Len(Ks[SoldKey(i)]) :
                          Ks[SoldKey(i)][n].comp = r.codigo_key
        /\ \A i \in 1..Len(vendas) :
              SoldKey(i) \notin DOMAIN Ks =>
                 \E r \in Range(expansao.rows) : r.codigo_key = SoldKey(i)
        /\ \A c \in KeysSeen \ DOMAIN Ks :
              (\A i \in 1..Len(vendas) :
                  SoldKey(i) \in DOMAIN Ks =>
                     \A n \in 1..Len(Ks[SoldKey(i)]) : Ks[SoldKey(i)][n].comp # c)
              => TotalQty(c) =
                    SumSeq([i \in 1..Len(vendas) |->
                       IF SoldKey(i) = c THEN vendas[i].quantidade ELSE 0])

\* some kit is registered, and a sold product that is no kit, whose row names
\* a component, is short of stock
C3_Witness ==
    /\ Concluded
    /\ DOMAIN Ks # {}
    /\ \E i \in 1..Len(vendas) :
          /\ PlainWithComponents(SoldKey(i))
          /\ vendas[i].quantidade > Available(SoldKey(i))
          /\ \A n \in 1..Len(KitComps(produtos_df[LastRowOf(produtos_df, SoldKey(i))])) :
                TotalQty(KitComps(produtos_df[LastRowOf(produtos_df, SoldKey(i))])[n]) = 0

\* ---------------------------------------------------------------- C4
\* the sales frame the handler that ran builds from a file
VendasOf(arq) == IF tela = "baixa" THEN VendasFatura(arq) ELSE VendasFaltantes(arq)

Reverse(s) == [i \in 1..Len(s) |-> s[Len(s) + 1 - i]]

\* C4 (as claimed): additivity and order-independence.  Each row of the
\* expanded result carries, for its key, the sum of what every sales row routes
\* to that key, and the result is the same with the sales lines in the other
\* order.
C4_Additive ==
    Concluded =>
        /\ \A r \in Range(expansao.rows) : r.quantidade = RoutedTotal(r.codigo_key)
        /\ expandir_kits(VendasOf(Reverse(arquivo)), produtos_df).rows = expansao.rows

\* ---------------------------------------------------------------- C5
\* the key k is a registered kit listing c
Lists(k, c) == k \in DOMAIN Ks /\ \E n \in 1..Len(Ks[k]) : Ks[k][n].comp = c

\* the kit k lists itself, directly or through another kit
OnCycle(k) == Lists(k, k) \/ \E m \in DOMAIN Ks : Lists(k, m) /\ Lists(m, k)

\* component visits one sales row makes
Visits(i) == IF SoldKey(i) \in DOMAIN Ks THEN Len(Ks[SoldKey(i)]) ELSE 1

\* C5: cycle safety.  Whatever the kit table, a kit listing itself included,
\* the traversal of a sales file is finite: when kits are registered it makes
\* one visit per (component, multiplier) pair of each sold kit and one per sold
\* product that is no kit, and every visit carries one sold quantity times one
\* multiplier, never a product of multipliers picked up by going round again.
C5_CycleSafe ==
    (tela # "inicio" /\ DOMAIN Ks # {}) =>
        /\ Len(expansao.linhas) = SumSeq([i \in 1..Len(vendas) |-> Visits(i)])
        /\ \A l \in Range(expansao.linhas) :
              \E i \in 1..Len(vendas) :
                 \/ /\ SoldKey(i) \notin DOMAIN Ks
                    /\ l.codigo_key = SoldKey(i)
                    /\ l.quantidade = vendas[i].quantidade
                 \/ /\ SoldKey(i) \in DOMAIN Ks
                    /\ \E n \in 1..Len(Ks[SoldKey(i)]) :
                          /\ l.codigo_key = Ks[SoldKey(i)][n].comp
                          /\ l.quantidade = vendas[i].quantidade * Ks[SoldKey(i)][n].qty
        /\ ~expansao.raised => \A c \in KeysSeen : TotalQty(c) <= RoutedTotal(c)

\* a sold kit lists itself, directly or through another registered kit, and
\* the expansion ended with rows
C5_Witness ==
    /\ Concluded
    /\ \E i \in 1..Len(vendas) : SoldKey(i) \in DOMAIN Ks /\ OnCycle(SoldKey(i))
    /\ \E i \in 1..Len(vendas) :
          /\ Lists(SoldKey(i), SoldKey(i))
          /\ \E r \in Range(expansao.rows) : r.codigo_key = SoldKey(i)
    /\ expansao.rows # <<>>

\* ---------------------------------------------------------------- C6
\* the catalog row read for the key k is flagged as a kit, and its component
\* and quantity lists differ in length
Mismatched(k) ==
    /\ k \in CatalogKeys(produtos_df)
    /\ k \notin DOMAIN Ks
    /\ LET row == produtos_df[LastRowOf(produtos_df, k)]
       IN /\ Lower(Strip(row.eh_kit)) = <<"s", "i", "m">>
          /\ Len(KitComps(row)) # Len(KitQuants(row))

\* C6 (as claimed): a kit whose lists differ in length is not traversed (its
\* components get no demand from it), and the output says so: the report
\* holds a row for that kit.
C6_MismatchDiagnosed ==
    (tela = "faltantes" /\ ~erro) =>
        \A i \in 1..Len(vendas) :
            Mismatched(SoldKey(i)) =>
                /\ \A c \in Range(KitComps(produtos_df[LastRowOf(produtos_df, SoldKey(i))])) :
                      TotalQty(c) = RoutedTotal(c)
                /\ \E f \in Range(falt) : f.codigo_key = SoldKey(i)

\* ---------------------------------------------------------------- C7
\* C7 (as claimed): a demanded key with no catalog entry gives exactly one
\* 'not registered' row, with stock 0 and its full demand as quantity.
C7_UnregisteredOneRow ==
    (tela = "faltantes" /\ ~erro) =>
        \A c \in KeysSeen :
            (c \notin CatalogKeys(produtos_df) /\ TotalQty(c) > 0) =>
                /\ Cardinality({j \in 1..Len(falt) : falt[j].codigo_key = c}) = 1
                /\ \A j \in 1..Len(falt) :
                      falt[j].codigo_key = c =>
                         /\ falt[j].tipo = "Nao cadastrado"
                         /\ falt[j].estoque_atual = 0
                         /\ falt[j].falta = RoutedTotal(c)

\* ---------------------------------------------------------------- C8
\* C8 (as claimed): negative stock counts as 0, so no shortage exceeds the
\* demand: falta = max(0, demand - max(0, stock)).
C8_NegativeClamped ==
    (tela = "faltantes" /\ ~erro) =>
        \A f \in Range(falt) :
            /\ f.falta = Max0(f.qtd_necessaria - Max0(f.estoque_atual))
            /\ f.falta <= f.qtd_necessaria

\* ---------------------------------------------------------------- C9
\* on-hand quantity of a key with duplicate rows summed
SumStock(k) ==
    SumSeq([i \in 1..Len(produtos_df) |->
        IF produtos_df[i].codigo_key = k THEN produtos_df[i].estoque_atual ELSE 0])

\* C9 (as claimed): the on-hand quantity used for a key, in the preview and in
\* the shortage report, is the sum over the stock rows of that key.
C9_DuplicatesSummed ==
    Concluded =>
        /\ \A r \in Range(prods_ok) : r.estoque_atual = SumStock(r.codigo_key)
        /\ \A f \in Range(falt) :
              f.tipo = "Produto/Componente" => f.estoque_atual = SumStock(f.codigo_key)
        /\ tela = "faltantes" =>
              \A r \in Range(expansao.rows) :
                 (r.codigo_key \in CatalogKeys(produtos_df)
                    /\ SumStock(r.codigo_key) >= r.quantidade)
                 => \A f \in Range(falt) : f.codigo_key # r.codigo_key

\* ---------------------------------------------------------------- C10
\* C10 (as claimed): the rows handed to the stock comparison hold one row per
\* normalized code, carrying the sum of the quantities sold under that code.
C10_OneRowPerKey ==
    Concluded =>
        /\ \A i, j \in 1..Len(expansao.rows) :
              i # j => expansao.rows[i].codigo_key # expansao.rows[j].codigo_key
        /\ \A r \in Range(expansao.rows) :
              (\A k \in DOMAIN Ks : ~Lists(k, r.codigo_key)) =>
                 r.quantidade =
                    SumSeq([i \in 1..Len(vendas) |->
                       IF SoldKey(i) = r.codigo_key THEN vendas[i].quantidade ELSE 0])

\* ---------------------------------------------------------------- C11
\* C11: normalization is idempotent.  The key normalize_key answers is a
\* fixed point: normalizing it again gives the same key.
C11_Idempotent ==
    chamada.fn = "normalize_key" => normalize_key(chamada.ret) = chamada.ret

\* a text with an accented letter, a sharp s or a blank was normalized to a
\* key that is not the text itself
C11_Witness ==
    /\ chamada.fn = "normalize_key"
    /\ chamada.ret # chamada.arg
    /\ chamada.ret # <<>>
    /\ Range(chamada.arg) \cap {"a_acute", "C_ced", "sz", "acute"} # {}

\* ---------------------------------------------------------------- C12
\* a letter without its accent; a combining accent has no letter
BaseLetter(c) ==
    CASE c = "a_acute" -> <<"a">> [] c = "A_acute" -> <<"A">>
      [] c = "c_ced" -> <<"c">> [] c = "C_ced" -> <<"C">>
      [] c \in {"acute", "cedilla"} -> <<>>
      [] OTHER -> <<c>>

RECURSIVE Unaccent(_)
Unaccent(x) == IF x = <<>> THEN <<>> ELSE BaseLetter(Head(x)) \o Unaccent(Tail(x))

\* the component codes of a products row as written, blank pieces dropped
RawComps(row) ==
    LET nonblank(c) == Strip(c) # <<>>
    IN SelectSeq(Split(row.componentes, ",", <<>>), nonblank)

\* every code the sheet, its component lists and the sales file write
CodesWritten ==
    SheetCodes \cup SaleCodes \cup UNION {Range(RawComps(r)) : r \in SheetRows}

\* a code without its accents, surrounding blanks and letter case
RECURSIVE FoldedCodes(_)
FoldedCodes(S) ==
    IF S = {} THEN <<>>
    ELSE LET c == CHOOSE x \in S : TRUE
         IN (c :> Lower(Strip(Unaccent(c)))) @@ FoldedCodes(S \ {c})

FoldedCode == FoldedCodes(CodesWritten)

\* two codes differ at most by surrounding blanks, letter case and accents
EquivCode(x, y) == FoldedCode[x] = FoldedCode[y]

\* the key k was found in stock by the page that ran: the preview has it among
\* the found rows and not among the others, the report does not call it
\* unregistered
Resolved(k) ==
    /\ tela = "baixa" =>
          /\ \E r \in Range(prods_ok) : r.codigo_key = k
          /\ \A r \in Range(prods_nok) : r.codigo_key # k
    /\ tela = "faltantes" =>
          \A f \in Range(falt) : f.codigo_key = k => f.tipo = "Produto/Componente"

\* every row the products table can hold once a whole sheet is loaded
CatalogRows == UNION {Range(carregar_produtos(<<r>>)) : r \in SheetRows}

RECURSIVE KitRowsAmong(_)
KitRowsAmong(S) ==
    IF S = {} THEN <<>>
    ELSE LET r == CHOOSE x \in S : TRUE
         IN (r :> RegistersKit(r)) @@ KitRowsAmong(S \ {r})

\* whether a row of the products table registers a kit, row by row
IsKitRow == KitRowsAmong(CatalogRows)

\* the products row j is the one whose components the kits dict holds
RegisteredFrom(j) ==
    /\ produtos_df[j].codigo_key \in DOMAIN Ks
    /\ IsKitRow[produtos_df[j]]
    /\ \A m \in (j + 1)..Len(produtos_df) :
          ~(produtos_df[m].codigo_key = produtos_df[j].codigo_key
              /\ IsKitRow[produtos_df[m]])

\* C12: one normalization on every lookup path.  A sold code that differs from
\* a catalog code only by blanks, case or accents gets that row's key, is
\* expanded when that row registers a kit, and is found in stock otherwise; a
\* component code of a sold kit that differs from a catalog code only so gets
\* a row of the expanded demand under that catalog row's key, found in stock.
C12_SameNormalization ==
    Concluded =>
        /\ \A i \in 1..Len(vendas), j \in 1..Len(produtos_df) :
              EquivCode(vendas[i].codigo, produtos_df[j].codigo) =>
                 /\ SoldKey(i) = produtos_df[j].codigo_key
                 /\ IsKitRow[produtos_df[j]] =>
                       /\ produtos_df[j].codigo_key \in DOMAIN Ks
                       /\ \A n \in 1..Len(Ks[produtos_df[j].codigo_key]) :
                             \E l \in Range(expansao.linhas) :
                                l.codigo_key = Ks[produtos_df[j].codigo_key][n].comp
                 /\ produtos_df[j].codigo_key \notin DOMAIN Ks =>
                       Resolved(produtos_df[j].codigo_key)
        /\ \A j \in 1..Len(produtos_df) :
              (/\ produtos_df[j].codigo_key \in DOMAIN Ks
               /\ produtos_df[j].codigo_key \in SoldKeys
               /\ RegisteredFrom(j)) =>
                 \A n \in 1..Len(RawComps(produtos_df[j])), m \in 1..Len(produtos_df) :
                    EquivCode(RawComps(produtos_df[j])[n], produtos_df[m].codigo) =>
                       /\ \E r \in Range(expansao.rows) :
                             r.codigo_key = produtos_df[m].codigo_key
                       /\ Resolved(produtos_df[m].codigo_key)

\* a code sold with an accent is found under a catalog code written without
\* it, and a sold kit names a component with an accent that the catalog
\* writes without it, in another letter case
C12_Witness ==
    /\ Concluded
    /\ \E i \in 1..Len(vendas), j \in 1..Len(produtos_df) :
          /\ vendas[i].codigo # produtos_df[j].codigo
          /\ EquivCode(vendas[i].codigo, produtos_df[j].codigo)
          /\ "a_acute" \in Range(vendas[i].codigo)
    /\ \E j \in 1..Len(produtos_df) :
          /\ RegisteredFrom(j)
          /\ produtos_df[j].codigo_key \in SoldKeys
          /\ \E n \in 1..Len(RawComps(produtos_df[j])), m \in 1..Len(produtos_df) :
                /\ EquivCode(RawComps(produtos_df[j])[n], produtos_df[m].codigo)
                /\ Strip(RawComps(produtos_df[j])[n]) # produtos_df[m].codigo
                /\ produtos_df[m].codigo = <<"A">>

\* ---------------------------------------------------------------- C13
\* C13 (as claimed): a failed load is fatal before any processing.  When the
\* sheet does not answer, or lacks a required column, there is no products
\* table and the script is stopped: no expansion, report, preview or movement
\* runs on a table loaded without a required column.
C13_LoadFailureFatal ==
    /\ ~carga.ok => (produtos_df = <<>> /\ tela = "parado")
    /\ carga.faltam # {} =>
          tela \notin {"faltantes", "baixa", "baixado", "movimento"}

\* ---------------------------------------------------------------- C14
\* a text without its sign
Unsigned(t) == IF t # <<>> /\ Head(t) = "-" THEN Tail(t) ELSE t

\* positions of a decimal separator, written ',' or '.'
SepAt(b) == {i \in 1..Len(b) : b[i] \in {",", "."}}

\* the text is a number: an optional '-', digits with at most one ',' or '.'
\* among them and at least one digit, blanks allowed around it
IsNumeral(s) ==
    LET b == Unsigned(Strip(s))
    IN /\ Cardinality(SepAt(b)) <= 1
       /\ \A i \in (1..Len(b)) \ SepAt(b) : IsDigit(b[i])
       /\ Len(b) > Cardinality(SepAt(b))

RECURSIVE Decimal(_)
\* the whole number a run of digits writes
Decimal(ds) ==
    IF ds = <<>> THEN 0
    ELSE 10 * Decimal(SubSeq(ds, 1, Len(ds) - 1)) + DigitVal(ds[Len(ds)])

\* the integer value of a number text: its part before the separator, signed
IntegerValue(s) ==
    LET t == Strip(s)
        b == Unsigned(t)
        k == IF SepAt(b) = {} THEN Len(b) + 1 ELSE CHOOSE i \in SepAt(b) : TRUE
        w == Decimal(SubSeq(b, 1, k - 1))
    IN IF b # t THEN 0 - w ELSE w

\* C14: malformed numeric text never raises.  safe_int answers the default
\* for None, NaN, a blank or 'nan' / 'none' / 'null' / 'n/a' text and for any
\* text that is no number; for a number text it answers its integer value,
\* ',' read as the decimal separator; a whole number is answered as it is.
C14_SafeIntDefaults ==
    chamada.fn = "safe_int" =>
        IF chamada.arg.t \in {"None", "NaN"} THEN chamada.ret = chamada.default
        ELSE IF chamada.arg.t = "int" THEN chamada.ret = chamada.arg.v
        ELSE IF Lower(Strip(chamada.arg.s)) \in NullTexts \/ ~IsNumeral(chamada.arg.s)
             THEN chamada.ret = chamada.default
             ELSE chamada.ret = IntegerValue(chamada.arg.s)

\* a text with a decimal comma was converted to a negative integer or to one
\* of two digits, with a default that is not 0
C14_Witness ==
    /\ chamada.fn = "safe_int"
    /\ chamada.arg.t = "str"
    /\ "," \in Range(chamada.arg.s)
    /\ chamada.default = 9
    /\ chamada.ret \in {-5, -1, 15, 51}

\* ---------------------------------------------------------------- C15
\* C15 (as claimed): no input aborts the run.  For every sales file, one with
\* no valid line included, the expansion and the found / not-found split end
\* without an error result, and every sales line that is no registered kit
\* appears with its full quantity in the output.
C15_NeverAborts ==
    tela \in {"baixa", "faltantes"} =>
        /\ ~erro
        /\ \A i \in 1..Len(vendas) :
              SoldKey(i) \notin DOMAIN Ks =>
                 \E r \in Range(expansao.rows) :
                    /\ r.codigo_key = SoldKey(i)
                    /\ r.quantidade >= vendas[i].quantidade

\* ---------------------------------------------------------------- C16
\* C16: the catalog is read-only during a run.  A step that runs the kit
\* expansion with the shortage report or with the invoice preview leaves the
\* products table as it was, row for row, and posts no stock movement.
C16_CatalogReadOnly ==
    [][(tela = "inicio" /\ tela' \in {"faltantes", "baixa"}) =>
          (produtos_df' = produtos_df /\ enviados' = <<>>)]_vars

\* the preview computed a final stock that differs from the stock on hand
\* for a found row, and the products table still holds the stock on hand
C16_Witness ==
    /\ tela = "baixa" /\ ~erro
    /\ DOMAIN Ks # {}
    /\ enviados = <<>>
    /\ \E r \in Range(prods_ok) :
          /\ r.estoque_final # r.estoque_atual
          /\ OnHand(r.codigo_key) = r.estoque_atual

\* ---------------------------------------------------------------- C17
\* the products row j registered the kit sold in the sales row i, one quantity
\* entry per component
SoldKitFrom(i, j) ==
    /\ produtos_df[j].codigo_key \in DOMAIN Ks
    /\ produtos_df[j].codigo_key = SoldKey(i)
    /\ RegisteredFrom(j)
    /\ Len(RawQuants(produtos_df[j])) = Len(KitComps(produtos_df[j]))

\* C17 (as claimed): fractional multipliers are carried exactly.  A component
\* whose quantity per kit is written 2.5 gets the sold quantity times 2.5.
C17_FractionalExact ==
    Concluded =>
        \A i \in 1..Len(vendas), j \in 1..Len(produtos_df) :
            SoldKitFrom(i, j) =>
                \A n \in 1..Len(KitComps(produtos_df[j])) :
                    \E l \in Range(expansao.linhas) :
                        /\ l.codigo_key = KitComps(produtos_df[j])[n]
                        /\ 10 * l.quantidade =
                              vendas[i].quantidade * Tenths(RawQuants(produtos_df[j])[n])

\* C17 (amended): multipliers are whole numbers.  The fraction of a quantity
\* per kit is dropped when the kit is registered, before any multiplication:
\* a component written 2.5 per kit gets the sold quantity times 2.
C17_MultiplierTruncated ==
    Concluded =>
        \A i \in 1..Len(vendas), j \in 1..Len(produtos_df) :
            SoldKitFrom(i, j) =>
                \A n \in 1..Len(KitComps(produtos_df[j])) :
                    /\ Ks[produtos_df[j].codigo_key][n].qty = Tenths(RawQuants(produtos_df[j])[n]) \div 10
                    /\ \E l \in Range(expansao.linhas) :
                          /\ l.codigo_key = KitComps(produtos_df[j])[n]
                          /\ l.quantidade =
                                vendas[i].quantidade
                                   * (Tenths(RawQuants(produtos_df[j])[n]) \div 10)

\* a sold kit was registered with a quantity per kit that has a fraction
C17_Witness ==
    /\ Concluded
    /\ \E i \in 1..Len(vendas), j \in 1..Len(produtos_df) :
          /\ SoldKitFrom(i, j)
          /\ \E n \in 1..Len(KitComps(produtos_df[j])) :
                /\ Tenths(RawQuants(produtos_df[j])[n]) % 10 # 0
                /\ TotalQty(KitComps(produtos_df[j])[n]) > 0

\* ---------------------------------------------------------------- C18
\* the keys the expanded demand has a row for
DemandKeys == {expansao.rows[n].codigo_key : n \in 1..Len(expansao.rows)}

\* what a registered key lacks: its whole demand less its stock, 0 at least
Faltante(c) == Max0(TotalQty(c) - OnHand(c))

\* the rows of the report that ask for more of the registered key c
ActionRows(c) ==
    {n \in 1..Len(falt) : falt[n].codigo_key = c /\ falt[n].tipo = "Produto/Componente"}

\* C18 (as claimed): the rows asking for more of a registered product mirror
\* the shortages exactly.  A registered key with demand has one such row when
\* it lacks something, with the lacking quantity, and none otherwise; every
\* such row belongs to a key with demand.
C18_ActionsMirrorShortages ==
    (tela = "faltantes" /\ ~erro) =>
        /\ \A c \in DemandKeys \cap CatalogKeys(produtos_df) :
              IF Faltante(c) > 0
              THEN /\ Cardinality(ActionRows(c)) = 1
                   /\ \A n \in ActionRows(c) : falt[n].falta = Faltante(c)
              ELSE ActionRows(c) = {}
        /\ \A n \in 1..Len(falt) :
              falt[n].tipo = "Produto/Componente" =>
                 \E r \in Range(expansao.rows) : r.codigo_key = falt[n].codigo_key

\* ---------------------------------------------------------------- C19
\* C19: test mode simulates everything.  While the test mode is on, whatever
\* was done (manual entrada or saida, batch write-off), nothing was posted to
\* the webhook and every movement answered success with the stock 'SIMULACAO'.
C19_TestModeSimulates ==
    test_mode =>
        /\ enviados = <<>>
        /\ \A n \in 1..Len(resultados) :
              /\ resultados[n].success
              /\ resultados[n].novo_estoque = "SIMULACAO"

\* a batch write-off of two found rows was simulated
C19_Witness ==
    /\ test_mode
    /\ tela = "baixado"
    /\ Len(prods_ok) >= 2
    /\ Len(resultados) = Len(prods_ok)

\* ---------------------------------------------------------------- C20
\* C20 (as claimed): the mobile app classifies as the main app does.  For
\* every stock, minimum and maximum, adicionar_status answers CRITICO exactly
\* when calcular_semaforo does.
C20_SameCritical ==
    chamada.fn = "status" =>
        ((chamada.mobile = "CRITICO") <=> (chamada.main = "CRITICO"))

\* ---------------------------------------------------------------- C26
\* C26: calcular_semaforo answers one status for every product, by a fixed
\* precedence: CRITICO iff atual < min; otherwise BAIXO iff atual <= 1.2 x min;
\* otherwise EXCESSO iff atual > max; otherwise OK.  So EXCESSO is answered
\* only above 1.2 x min as well as above max, whatever min and max are.
C26_FixedPrecedence ==
    chamada.fn = "status" =>
        LET a == chamada.estoque_atual
            mn == chamada.estoque_min
            mx == chamada.estoque_max
            st == chamada.main
        IN /\ st \in {"CRITICO", "BAIXO", "EXCESSO", "OK"}
           /\ st = "CRITICO" <=> a < mn
           /\ st = "BAIXO" <=> (a >= mn /\ 10 * a <= 12 * mn)
           /\ st = "EXCESSO" <=> (a >= mn /\ 10 * a > 12 * mn /\ a > mx)
           /\ st = "OK" <=> (a >= mn /\ 10 * a > 12 * mn /\ a <= mx)

\* a product above its maximum that is not EXCESSO because its maximum is
\* below its minimum, and a product with no minimum and no stock
C26_Witness ==
    /\ chamada.fn = "status"
    /\ \/ /\ chamada.estoque_max < chamada.estoque_min
          /\ chamada.estoque_atual > chamada.estoque_max
          /\ chamada.main = "BAIXO"
       \/ /\ chamada.estoque_min = 0
          /\ chamada.estoque_atual = 0
          /\ chamada.main = "BAIXO"

\* ---------------------------------------------------------------- C25
\* a page expanded the sales file against the products table
Expanded == tela \in {"faltantes", "baixa", "baixado"} /\ ~erro

\* the products row j is the last one that registers a kit under its key
LastRegistering(j) ==
    /\ RegistersKit(produtos_df[j])
    /\ \A m \in (j + 1)..Len(produtos_df) :
          ~(produtos_df[m].codigo_key = produtos_df[j].codigo_key
              /\ RegistersKit(produtos_df[m]))

\* C25: positional pairing.  In a registered kit the n-th non-empty component
\* code is paired with the quantity written at the n-th position of the
\* quantidades column; an entry that is blank or no number does not move the
\* later quantities onto earlier components.
C25_PositionalPairing ==
    Expanded =>
        \A j \in 1..Len(produtos_df) :
            LastRegistering(j) =>
                \A n \in 1..Len(KitComps(produtos_df[j])) :
                    /\ Ks[produtos_df[j].codigo_key][n].comp = KitComps(produtos_df[j])[n]
                    /\ n <= Len(RawQuants(produtos_df[j]))
                    /\ Ks[produtos_df[j].codigo_key][n].qty =
                          safe_int(RawQuants(produtos_df[j])[n], 0)

\* ---------------------------------------------------------------- C24
\* C24: every row of the shortage report has a strictly positive Falta, the
\* required quantity less the stock on hand of its code (no stock for a code
\* that is not registered), whatever quantities the sales file holds.
C24_ShortagesPositive ==
    (tela = "faltantes" /\ ~erro) =>
        \A n \in 1..Len(falt) :
            /\ falt[n].falta > 0
            /\ falt[n].falta =
                  Max0(falt[n].qtd_necessaria
                         - (IF falt[n].codigo_key \in CatalogKeys(produtos_df)
                            THEN OnHand(falt[n].codigo_key) ELSE 0))

\* ---------------------------------------------------------------- C23
\* the integer a quantity stands for, 0 when it stands for none
QuantityOf(x) ==
    CASE x.t \in {"None", "NaN"} -> 0
      [] x.t = "int" -> x.v
      [] OTHER -> IF Lower(Strip(x.s)) \in NullTexts \/ ~IsNumeral(x.s) THEN 0
                  ELSE IntegerValue(x.s)

\* C23: movimentar_estoque never raises.  A failure of the request or of the
\* decoding of its response is answered as success false with the message
\* 'Erro: ...', and the quantity sent is an integer: safe_int of the quantity
\* handed over, 0 when it is no number.
C23_NeverRaises ==
    chamada.fn = "movimentar_estoque" =>
        /\ ~chamada.ret.raised
        /\ (~chamada.test_mode /\ chamada.resposta = "excecao") =>
              (~chamada.ret.res.success /\ chamada.ret.res.message = "Erro")
        /\ \A n \in 1..Len(chamada.ret.posted) :
              /\ chamada.ret.posted[n].quantidade \in Int
              /\ chamada.ret.posted[n].quantidade = QuantityOf(chamada.quantidade)

\* outside test mode a quantity that is no number was sent as 0 and the
\* request raised
C23_Witness ==
    /\ chamada.fn = "movimentar_estoque"
    /\ ~chamada.test_mode
    /\ chamada.resposta = "excecao"
    /\ chamada.quantidade.t = "str"
    /\ ~IsNumeral(chamada.quantidade.s)
    /\ Len(chamada.ret.posted) = 1
    /\ chamada.ret.posted[1].quantidade = 0

\* ---------------------------------------------------------------- C22
\* the movements of the batch that answered success, and those that did not
Sucesso == Cardinality({n \in 1..Len(resultados) : resultados[n].status = "Sucesso"})

ErroCount == Cardinality({n \in 1..Len(resultados) : ~resultados[n].success})

RowId(r) == <<r.codigo_key, r.codigo, r.quantidade>>

\* how many rows of a table are the row id
Times(table, id) == Cardinality({n \in 1..Len(table) : RowId(table[n]) = id})

\* C21: processar_faturamento answers an error and no table, or two tables and
\* no error.  The two tables share no row and hold every row of the expanded
\* demand exactly once; a row is among the found ones exactly when its key is
\* a key of the catalog; a found row's estoque_final is its estoque_atual, the
\* stock of its key, less its quantidade.
C21_PreviewPartition ==
    tela = "baixa" =>
        /\ erro => (prods_ok = <<>> /\ prods_nok = <<>>)
        /\ ~erro =>
              /\ Len(prods_ok) + Len(prods_nok) = Len(expansao.rows)
              /\ \A n \in 1..Len(expansao.rows) :
                    LET id == RowId(expansao.rows[n])
                    IN /\ Times(prods_ok, id) + Times(prods_nok, id)
                             = Times(expansao.rows, id)
                       /\ Times(prods_ok, id) > 0
                             <=> expansao.rows[n].codigo_key \in CatalogKeys(produtos_df)
                       /\ Times(prods_ok, id) = 0 \/ Times(prods_nok, id) = 0
              /\ \A n \in 1..Len(prods_ok) :
                    /\ prods_ok[n].estoque_atual = OnHand(prods_ok[n].codigo_key)
                    /\ prods_ok[n].estoque_final =
                          prods_ok[n].estoque_atual - prods_ok[n].quantidade

\* the preview found one code, with less stock than was sold, and did not
\* find another
C21_Witness ==
    /\ tela = "baixa"
    /\ ~erro
    /\ prods_nok # <<>>
    /\ \E n \in 1..Len(prods_ok) : prods_ok[n].estoque_final < 0

====
